---- MODULE Spec2Model ----
(***************************************************************************)
(* Model of the two leaf utilities of the ZeroTier desktop UI:             *)
(*   - the Windows clipboard shim (vendor/tao/.../windows/clipboard.rs),   *)
(*     one step per OS call, with the OS clipboard, the global-memory heap *)
(*     and the registered-format table as state;                           *)
(*   - the About window (src/about.rs), one step per phase of about_main   *)
(*     and one step per toolkit event.                                     *)
(* The two utilities do not interact: a process either runs about_main,   *)
(* which never returns, or makes clipboard calls, one at a time.          *)
(*                                                                         *)
(* A Rust str is a sequence of Unicode scalar values; a byte buffer is a   *)
(* sequence of 0..255; a wide buffer is a sequence of 16-bit units.        *)
(* Option<T> is a sequence of length at most one: <<>> is None, <<v>> is   *)
(* Some(v).                                                                *)
(***************************************************************************)
EXTENDS Integers, Sequences, FiniteSets, TLC

\* ---------------------------------------------------------------- bounds
MaxStrLen == 1      \* longest string handed to write_text
MaxFormats == 2     \* longest format list handed to put_formats
MaxPuts == 1        \* put_formats / write_text calls per behaviour
MaxReads == 1       \* read_text calls per behaviour

\* ------------------------------------------------------- program constants
CF_UNICODETEXT == 13

\* ClipboardFormat::TEXT, the identifier tag of plain text ("text/plain").
TEXT == <<116, 101, 120, 116, 47, 112, 108, 97, 105, 110>>

STANDARD_FORMATS ==
  <<
     <<1, <<67, 70, 95, 84, 69, 88, 84>>>>,  \* CF_TEXT
     <<2, <<67, 70, 95, 66, 73, 84, 77, 65, 80>>>>,  \* CF_BITMAP
     <<3, <<67, 70, 95, 77, 69, 84, 65, 70, 73, 76, 69, 80, 73, 67, 84>>>>,  \* CF_METAFILEPICT
     <<4, <<67, 70, 95, 83, 89, 76, 75>>>>,  \* CF_SYLK
     <<5, <<67, 70, 95, 68, 73, 70>>>>,  \* CF_DIF
     <<6, <<67, 70, 95, 84, 73, 70, 70>>>>,  \* CF_TIFF
     <<7, <<67, 70, 95, 79, 69, 77, 84, 69, 88, 84>>>>,  \* CF_OEMTEXT
     <<8, <<67, 70, 95, 68, 73, 66>>>>,  \* CF_DIB
     <<9, <<67, 70, 95, 80, 65, 76, 69, 84, 84, 69>>>>,  \* CF_PALETTE
     <<10, <<67, 70, 95, 80, 69, 78, 68, 65, 84, 65>>>>,  \* CF_PENDATA
     <<11, <<67, 70, 95, 82, 73, 70, 70>>>>,  \* CF_RIFF
     <<12, <<67, 70, 95, 87, 65, 86, 69>>>>,  \* CF_WAVE
     <<13, <<67, 70, 95, 85, 78, 73, 67, 79, 68, 69, 84, 69, 88, 84>>>>,  \* CF_UNICODETEXT
     <<14, <<67, 70, 95, 69, 78, 72, 77, 69, 84, 65, 70, 73, 76, 69>>>>,  \* CF_ENHMETAFILE
     <<15, <<67, 70, 95, 72, 68, 82, 79, 80>>>>,  \* CF_HDROP
     <<16, <<67, 70, 95, 76, 79, 67, 65, 76, 69>>>>,  \* CF_LOCALE
     <<17, <<67, 70, 95, 68, 73, 66, 86, 53>>>>,  \* CF_DIBV5
     <<128, <<67, 70, 95, 79, 87, 78, 69, 82, 68, 73, 83, 80, 76, 65, 89>>>>,  \* CF_OWNERDISPLAY
     <<129, <<67, 70, 95, 68, 83, 80, 84, 69, 88, 84>>>>,  \* CF_DSPTEXT
     <<130, <<67, 70, 95, 68, 83, 80, 66, 73, 84, 77, 65, 80>>>>,  \* CF_DSPBITMAP
     <<131, <<67, 70, 95, 68, 83, 80, 77, 69, 84, 65, 70, 73, 76, 69, 80, 73, 67, 84>>>>,  \* CF_DSPMETAFILEPICT
     <<142, <<67, 70, 95, 68, 83, 80, 69, 78, 72, 77, 69, 84, 65, 70, 73, 76, 69>>>>,  \* CF_DSPENHMETAFILE
     <<512, <<67, 70, 95, 80, 82, 73, 86, 65, 84, 69, 70, 73, 82, 83, 84>>>>,  \* CF_PRIVATEFIRST
     <<767, <<67, 70, 95, 80, 82, 73, 86, 65, 84, 69, 76, 65, 83, 84>>>>,  \* CF_PRIVATELAST
     <<768, <<67, 70, 95, 71, 68, 73, 79, 66, 74, 70, 73, 82, 83, 84>>>>,  \* CF_GDIOBJFIRST
     <<1023, <<67, 70, 95, 71, 68, 73, 79, 66, 74, 76, 65, 83, 84>>>>   \* CF_GDIOBJLAST
  >>

\* First id the OS hands out for a registered format name (0xC000).
FirstRegisteredId == 49152

\* ------------------------------------------------------------ input pools
\* U+0000, 'A', and U+1F600 (four UTF-8 bytes, a surrogate pair in UTF-16).
Chars == {0, 65, 128512}

RECURSIVE SeqsUpTo(_, _)
SeqsUpTo(S, n) ==
  IF n = 0 THEN {<<>>}
  ELSE LET shorter == SeqsUpTo(S, n - 1)
       IN  shorter \cup {Append(q, x) : q \in {r \in shorter : Len(r) = n - 1}, x \in S}

Strings == SeqsUpTo(Chars, MaxStrLen)

\* -------------------------------------------------------- text conversions
\* str::as_bytes: the UTF-8 encoding of one scalar value / of a string.
Utf8OfChar(c) ==
  IF c < 128 THEN <<c>>
  ELSE IF c < 2048 THEN <<192 + (c \div 64), 128 + (c % 64)>>
  ELSE IF c < 65536 THEN
    <<224 + (c \div 4096), 128 + ((c \div 64) % 64), 128 + (c % 64)>>
  ELSE <<240 + (c \div 262144), 128 + ((c \div 4096) % 64),
         128 + ((c \div 64) % 64), 128 + (c % 64)>>

RECURSIVE as_bytes(_)
as_bytes(s) ==
  IF s = <<>> THEN <<>> ELSE Utf8OfChar(Head(s)) \o as_bytes(Tail(s))

\* std::str::from_utf8_unchecked: the scalar values of a well-formed UTF-8
\* buffer (the lead byte gives the length of each sequence).
RECURSIVE from_utf8_unchecked(_)
from_utf8_unchecked(b) ==
  IF b = <<>> THEN <<>>
  ELSE LET b1 == b[1]
       IN  IF b1 < 128 THEN <<b1>> \o from_utf8_unchecked(SubSeq(b, 2, Len(b)))
           ELSE IF b1 < 224 THEN
             <<(b1 - 192) * 64 + (b[2] - 128)>>
               \o from_utf8_unchecked(SubSeq(b, 3, Len(b)))
           ELSE IF b1 < 240 THEN
             <<(b1 - 224) * 4096 + (b[2] - 128) * 64 + (b[3] - 128)>>
               \o from_utf8_unchecked(SubSeq(b, 4, Len(b)))
           ELSE
             <<(b1 - 240) * 262144 + (b[2] - 128) * 4096
                 + (b[3] - 128) * 64 + (b[4] - 128)>>
               \o from_utf8_unchecked(SubSeq(b, 5, Len(b)))

\* encode_wide keeping only the low 16 bits of each scalar value.
RECURSIVE encode_wide_Truncating(_)
encode_wide_Truncating(s) ==
  IF s = <<>> THEN <<>> ELSE <<Head(s) % 65536>> \o encode_wide_Truncating(Tail(s))

\* OsStrExt::encode_wide: UTF-16 units of a string.
RECURSIVE encode_wide(_)
encode_wide(s) ==
  IF s = <<>> THEN <<>>
  ELSE LET c == Head(s)
       IN  (IF c < 65536 THEN <<c>>
            ELSE <<55296 + ((c - 65536) \div 1024), 56320 + ((c - 65536) % 1024)>>)
           \o encode_wide(Tail(s))

IsHighSurrogate(u) == u >= 55296 /\ u <= 56319
IsLowSurrogate(u) == u >= 56320 /\ u <= 57343

\* String::from_utf16: Ok(string) as <<string>>, Err as <<>>.
RECURSIVE from_utf16(_)
from_utf16(w) ==
  IF w = <<>> THEN << <<>> >>
  ELSE LET u == w[1]
       IN  IF IsHighSurrogate(u) THEN
             IF Len(w) >= 2 /\ IsLowSurrogate(w[2]) THEN
               LET rest == from_utf16(SubSeq(w, 3, Len(w)))
               IN  IF rest = <<>> THEN <<>>
                   ELSE << <<65536 + (u - 55296) * 1024 + (w[2] - 56320)>> \o rest[1] >>
             ELSE <<>>
           ELSE IF IsLowSurrogate(u) THEN <<>>
           ELSE LET rest == from_utf16(SubSeq(w, 2, Len(w)))
                IN  IF rest = <<>> THEN <<>> ELSE << <<u>> \o rest[1] >>

\* A scan that counts the terminating zero unit into the slice.
RECURSIVE ScanToNul_WithTerminator(_)
ScanToNul_WithTerminator(w) ==
  IF w = <<>> THEN <<>>
  ELSE IF w[1] = 0 THEN <<0>>
  ELSE <<w[1]>> \o ScanToNul_WithTerminator(Tail(w))

\* The `while *unic_str.offset(len) != 0` scan: the units before the first
\* zero unit of a zero-terminated wide buffer.
RECURSIVE ScanToNul(_)
ScanToNul(w) ==
  IF w = <<>> \/ w[1] = 0 THEN <<>> ELSE <<w[1]>> \o ScanToNul(Tail(w))

\* Identifiers of the formats offered to put_formats directly: a well-known
\* name ("CF_TEXT"), a private name ("fmt") and a name with an interior NUL.
\* Plain text reaches put_formats through write_text.
CustomName == <<102, 109, 116>>
NulName == <<97, 0, 98>>
Identifiers == {STANDARD_FORMATS[1][2], CustomName, NulName}

\* Payload of the formats offered to put_formats directly.
RawPayloads == {<<1, 2>>}

\* ClipboardFormat { identifier, data }
ClipboardFormat(identifier, data) == [identifier |-> identifier, data |-> data]

FormatPool == {ClipboardFormat(n, d) : n \in Identifiers, d \in RawPayloads}

FormatLists == SeqsUpTo(FormatPool, MaxFormats)

\* impl From<&str> for ClipboardFormat: the TEXT tag with the str's bytes.
StrIntoFormat(s) == ClipboardFormat(TEXT, as_bytes(s))

\* CF_UNICODETEXT buffers other processes may leave on the clipboard; the OS
\* format contract makes each of them zero-terminated.  A lone high
\* surrogate, a lone low surrogate, a surrogate pair, and "A" NUL "A".
ForeignTexts ==
  {<<55357, 0>>, <<56832, 65, 0>>, <<55357, 56832, 0>>, <<65, 0, 65, 0>>}

\* ------------------------------------------------------------------ state
VARIABLES
  pc,         \* position of the clipboard call in progress ("idle": none)
  op,         \* the call in progress, or the last one: name, formats, s
  i,          \* put_formats: index of the format being processed
  handle,     \* local `handle` of put_formats / read_text (0: null)
  format_id,  \* local `format_id` of put_formats
  v,          \* value the closure passed to with_clipboard evaluates to
  ret,        \* what with_clipboard returned: <<>> None, <<v>> Some(v)
  clipOpen,   \* this thread holds the OS clipboard open
  clip,       \* OS clipboard: format id -> memory handle
  heap,       \* global memory objects a handle refers to: handle -> mem,
              \* width, locks, owner
  leaked,     \* number of memory objects nothing refers to any more
  registry,   \* names registered with RegisterClipboardFormatA, in order
  trace,      \* OS calls made by the call in progress (or the last one)
  log,        \* lines printed by the call in progress (or the last one)
  before,     \* clipboard contents when the call started
  prev,       \* what happened just before the call started
  puts,       \* number of put_formats / write_text calls started
  reads,      \* number of read_text calls started
  apc,        \* About process: position in about_main
  window,     \* About window: "none" or "shown"
  handlers,   \* toolkit events that have a callback registered
  event,      \* last event the toolkit dispatched ("none": no event yet)
  exitStatus  \* About process: exit status, -1 while it has not exited

clipVars ==
  <<pc, op, i, handle, format_id, v, ret, clipOpen, clip, heap, leaked, registry,
    trace, log, before, prev, puts, reads>>
aboutVars == <<apc, window, handlers, event, exitStatus>>
vars == <<clipVars, aboutVars>>

Range(f) == {f[x] : x \in DOMAIN f}

NoOp == [name |-> "none", formats |-> <<>>, s |-> <<>>]
NoPrev == [kind |-> "none", s |-> <<>>]

\* One OS call: its name, the format id and handle it was given (0: not
\* applicable) and whether it succeeded.
OsCall(call, fmt, h, ok) == [call |-> call, fmt |-> fmt, h |-> h, ok |-> ok]

\* What the clipboard holds: format id -> the bytes/units stored under it.
Contents == [id \in DOMAIN clip |-> heap[clip[id]].mem]

\* GlobalAlloc: the lowest handle value not in use.
NewHandle ==
  CHOOSE n \in 1..(Cardinality(DOMAIN heap) + 1) :
    /\ n \notin DOMAIN heap
    /\ \A m \in 1..(n - 1) : m \in DOMAIN heap

\* GetClipboardData: the handle stored under a format id, or null.
GetClipboardData(id) == IF id \in DOMAIN clip THEN clip[id] ELSE 0

\* RegisterClipboardFormatA on success: the id of a name already registered,
\* or the next free id.
IndexOf(seq, x) == CHOOSE k \in 1..Len(seq) : seq[k] = x
RegisterClipboardFormatA(name) ==
  IF name \in Range(registry)
  THEN FirstRegisteredId + IndexOf(registry, name) - 1
  ELSE FirstRegisteredId + Len(registry)

\* All OS calls of the trace succeeded.
AllOk(t) == \A k \in 1..Len(t) : t[k].ok

\* Summary of the last thing that happened to the clipboard, taken when a
\* read_text starts: a write_text whose OS calls all succeeded, or other.
Summary ==
  IF op.name = "none" THEN NoPrev
  ELSE IF op.name = "write_text" /\ AllOk(trace)
       THEN [kind |-> "write_ok", s |-> op.s]
       ELSE [kind |-> "other", s |-> <<>>]

Init ==
  /\ pc = "idle" /\ op = NoOp /\ i = 0 /\ handle = 0 /\ format_id = 0
  /\ v = <<>> /\ ret = <<>> /\ clipOpen = FALSE
  /\ clip = <<>> /\ heap = <<>> /\ leaked = 0 /\ registry = <<>>
  /\ trace = <<>> /\ log = <<>> /\ before = <<>> /\ prev = NoPrev
  /\ puts = 0 /\ reads = 0
  /\ apc = "start" /\ window = "none" /\ handlers = {} /\ event = "none"
  /\ exitStatus = -1

\* --------------------------------------------------------- clipboard calls
\* Entry of a public function: the locals are fresh and with_clipboard is
\* about to call OpenClipboard.  The process is not the About process.
Enter(o) ==
  /\ pc = "idle" /\ apc = "start"
  /\ IF o.name = "read_text"
     THEN reads < MaxReads /\ reads' = reads + 1 /\ puts' = puts
     ELSE puts < MaxPuts /\ puts' = puts + 1 /\ reads' = reads
  /\ pc' = "open" /\ op' = o
  /\ i' = 0 /\ handle' = 0 /\ format_id' = 0 /\ v' = <<>> /\ ret' = <<>>
  /\ trace' = <<>> /\ log' = <<>> /\ before' = Contents
  /\ prev' = IF o.name = "read_text" THEN Summary ELSE NoPrev
  /\ UNCHANGED <<clipOpen, clip, heap, leaked, registry, aboutVars>>

read_text == Enter([name |-> "read_text", formats |-> <<>>, s |-> <<>>])

put_formats ==
  \E formats \in FormatLists :
    Enter([name |-> "put_formats", formats |-> formats, s |-> <<>>])

write_text ==
  \E s \in Strings :
    Enter([name |-> "write_text", formats |-> <<StrIntoFormat(s)>>, s |-> s])

\* Another process replaces the clipboard contents while this thread does
\* not hold the clipboard.
ForeignWrite ==
  /\ pc = "idle"
  /\ \E w \in ForeignTexts \cup {<<>>} :
       IF w = <<>>
       THEN clip' = <<>> /\ heap' = <<>>
       ELSE /\ clip' = (CF_UNICODETEXT :> 1)
            /\ heap' = (1 :> [mem |-> w, width |-> 2, locks |-> 0, owner |-> "os"])
  /\ op' = [name |-> "foreign", formats |-> <<>>, s |-> <<>>]
  /\ i' = 0 /\ handle' = 0 /\ format_id' = 0 /\ v' = <<>> /\ ret' = <<>>
  /\ trace' = <<>> /\ log' = <<>> /\ before' = <<>> /\ prev' = NoPrev
  /\ UNCHANGED <<pc, clipOpen, leaked, registry, puts, reads, aboutVars>>

\* with_clipboard: OpenClipboard succeeded, the closure runs next.
OpenClipboardOk ==
  /\ pc = "open"
  /\ clipOpen' = TRUE
  /\ trace' = Append(trace, OsCall("OpenClipboard", 0, 0, TRUE))
  /\ pc' = IF op.name = "read_text" THEN "get" ELSE "empty"
  /\ UNCHANGED <<op, i, handle, format_id, v, ret, clip, heap, leaked, registry, log,
                 before, prev, puts, reads, aboutVars>>

\* with_clipboard: OpenClipboard returned FALSE, `return None`.
OpenClipboardFails ==
  /\ pc = "open"
  /\ trace' = Append(trace, OsCall("OpenClipboard", 0, 0, FALSE))
  /\ ret' = <<>>
  /\ pc' = "idle"
  /\ UNCHANGED <<op, i, handle, format_id, v, clipOpen, clip, heap, leaked, registry,
                 log, before, prev, puts, reads, aboutVars>>

\* with_clipboard returning a None result of the closure before it reaches
\* CloseClipboard.
CloseClipboardStep_SkipOnNone ==
  /\ pc = "close"
  /\ IF op.name = "read_text" /\ v = <<>>
     THEN clipOpen' = clipOpen /\ trace' = trace
     ELSE /\ clipOpen' = FALSE
          /\ trace' = Append(trace, OsCall("CloseClipboard", 0, 0, TRUE))
  /\ ret' = <<v>>
  /\ pc' = "idle"
  /\ UNCHANGED <<op, i, handle, format_id, v, clip, heap, leaked, registry, log,
                 before, prev, puts, reads, aboutVars>>

\* with_clipboard after the closure: CloseClipboard, then Some(result).
CloseClipboardStep ==
  /\ pc = "close"
  /\ clipOpen' = FALSE
  /\ trace' = Append(trace, OsCall("CloseClipboard", 0, 0, TRUE))
  /\ ret' = <<v>>
  /\ pc' = "idle"
  /\ UNCHANGED <<op, i, handle, format_id, v, clip, heap, leaked, registry, log,
                 before, prev, puts, reads, aboutVars>>

\* ------------------------------------------------------------ put_formats
\* Loop head of `for format in formats`: the position after format k.
LoopFrom(k) == IF k < Len(op.formats) THEN "loop" ELSE "close"

\* put_formats that leaves the old contents in place.
EmptyClipboardStep_KeepsContents ==
  /\ pc = "empty"
  /\ trace' = Append(trace, OsCall("EmptyClipboard", 0, 0, TRUE))
  /\ i' = 1
  /\ pc' = LoopFrom(0)
  /\ UNCHANGED <<op, handle, format_id, v, ret, clipOpen, clip, heap, leaked, registry,
                 log, before, prev, puts, reads, aboutVars>>

\* EmptyClipboard(): frees every handle the clipboard owns.  With the
\* clipboard open by the caller the call succeeds; its result is ignored.
EmptyClipboardStep ==
  /\ pc = "empty"
  /\ clip' = <<>>
  /\ heap' = [x \in DOMAIN heap \ Range(clip) |-> heap[x]]
  /\ trace' = Append(trace, OsCall("EmptyClipboard", 0, 0, TRUE))
  /\ i' = 1
  /\ pc' = LoopFrom(0)
  /\ UNCHANGED <<leaked, op, handle, format_id, v, ret, clipOpen, registry, log,
                 before, prev, puts, reads, aboutVars>>

\* make_handle: what the new memory object holds.  Text is re-encoded as
\* UTF-16 with a terminating zero unit; any other payload is copied as is.
make_handle(format) ==
  IF format.identifier = TEXT
  THEN [mem |-> encode_wide(from_utf8_unchecked(format.data)) \o <<0>>, width |-> 2]
  ELSE [mem |-> format.data, width |-> 1]

\* The OS calls of make_handle for the handle h it returns.
MakeHandleCalls(h) ==
  <<OsCall("GlobalAlloc", 0, h, TRUE), OsCall("GlobalLock", 0, h, TRUE),
    OsCall("GlobalUnlock", 0, h, TRUE)>>

\* register_identifier, given what RegisterClipboardFormatA returns
\* (pb_format, 0 on failure): the id, whether the OS was asked, what is
\* printed.
register_identifier(ident, pb_format) ==
  IF 0 \in Range(ident)
  THEN [id |-> <<>>, asked |-> FALSE, log |-> <<"null byte in identifier">>]
  ELSE IF pb_format = 0
  THEN [id |-> <<>>, asked |-> TRUE, log |-> <<"register failed">>]
  ELSE [id |-> <<pb_format>>, asked |-> TRUE, log |-> <<>>]

\* get_format_id without the table lookup.
get_format_id_NoTable(format, pb_format) ==
  IF format = TEXT
  THEN [id |-> <<CF_UNICODETEXT>>, asked |-> FALSE, log |-> <<>>]
  ELSE register_identifier(format, pb_format)

\* get_format_id: the table first, then TEXT, then registration.
get_format_id(format, pb_format) ==
  IF \E k \in 1..Len(STANDARD_FORMATS) : STANDARD_FORMATS[k][2] = format
  THEN LET k == CHOOSE j \in 1..Len(STANDARD_FORMATS) :
                  /\ STANDARD_FORMATS[j][2] = format
                  /\ \A m \in 1..(j - 1) : STANDARD_FORMATS[m][2] # format
       IN  [id |-> <<STANDARD_FORMATS[k][1]>>, asked |-> FALSE, log |-> <<>>]
  ELSE IF format = TEXT
  THEN [id |-> <<CF_UNICODETEXT>>, asked |-> FALSE, log |-> <<>>]
  ELSE register_identifier(format, pb_format)

\* The OS call get_format_id made, if any, and the registered names after it.
RegisterCalls(r, pb_format) ==
  IF r.asked
  THEN <<OsCall("RegisterClipboardFormatA", pb_format, 0, pb_format # 0)>>
  ELSE <<>>
Registered(ident, r, pb_format) ==
  IF r.asked /\ pb_format # 0 /\ ident \notin Range(registry)
  THEN Append(registry, ident)
  ELSE registry

\* One iteration of the loop whose identifier does not resolve: the handle
\* is made first, get_format_id gives None, the failure is printed and the
\* loop continues; the handle made for this format is dropped.
IterationUnresolved ==
  /\ pc = "loop"
  /\ LET ident == op.formats[i].identifier
         h == NewHandle
     IN  \E pb_format \in {0, RegisterClipboardFormatA(ident)} :
           LET r == get_format_id(ident, pb_format)
           IN  /\ r.id = <<>>
               /\ trace' = trace \o MakeHandleCalls(h) \o RegisterCalls(r, pb_format)
               /\ log' = log \o r.log \o <<"failed to register clipboard format">>
               /\ registry' = Registered(ident, r, pb_format)
               /\ handle' = h
  /\ leaked' = leaked + 1
  /\ i' = i + 1
  /\ pc' = LoopFrom(i)
  /\ UNCHANGED <<op, format_id, v, ret, clipOpen, clip, heap, before, prev,
                 puts, reads, aboutVars>>

\* One iteration in which SetClipboardData succeeds: the clipboard owns the
\* handle and frees the one it held under the same id.
IterationSetOk ==
  /\ pc = "loop"
  /\ LET ident == op.formats[i].identifier
         h == NewHandle
         m == make_handle(op.formats[i])
     IN  \E pb_format \in {0, RegisterClipboardFormatA(ident)} :
           LET r == get_format_id(ident, pb_format)
               id == r.id[1]
               old == IF id \in DOMAIN clip THEN {clip[id]} ELSE {}
           IN  /\ r.id # <<>>
               /\ trace' = trace \o MakeHandleCalls(h) \o RegisterCalls(r, pb_format)
                             \o <<OsCall("SetClipboardData", id, h, TRUE)>>
               /\ log' = log \o r.log
               /\ registry' = Registered(ident, r, pb_format)
               /\ handle' = h /\ format_id' = id
               /\ clip' = (id :> h) @@ clip
               /\ heap' = [x \in DOMAIN heap \ old |-> heap[x]] @@
                    (h :> [mem |-> m.mem, width |-> m.width, locks |-> 0, owner |-> "os"])
  /\ i' = i + 1
  /\ pc' = LoopFrom(i)
  /\ UNCHANGED <<op, v, ret, clipOpen, leaked, before, prev, puts, reads, aboutVars>>

\* A set failure that leaves the loop instead of going on.
IterationSetFails_Breaks ==
  /\ pc = "loop"
  /\ LET ident == op.formats[i].identifier
         h == NewHandle
     IN  \E pb_format \in {0, RegisterClipboardFormatA(ident)} :
           LET r == get_format_id(ident, pb_format)
           IN  /\ r.id # <<>>
               /\ trace' = trace \o MakeHandleCalls(h) \o RegisterCalls(r, pb_format)
                             \o <<OsCall("SetClipboardData", r.id[1], h, FALSE)>>
               /\ log' = log \o r.log \o <<"failed to set clipboard">>
               /\ registry' = Registered(ident, r, pb_format)
               /\ handle' = h /\ format_id' = r.id[1]
  /\ leaked' = leaked + 1
  /\ i' = i + 1
  /\ pc' = "close"
  /\ UNCHANGED <<op, v, ret, clipOpen, clip, heap, before, prev, puts, reads,
                 aboutVars>>

\* One iteration in which SetClipboardData returns null: printed, not
\* retried, next format.  The handle stays with the caller, which drops it.
IterationSetFails ==
  /\ pc = "loop"
  /\ LET ident == op.formats[i].identifier
         h == NewHandle
     IN  \E pb_format \in {0, RegisterClipboardFormatA(ident)} :
           LET r == get_format_id(ident, pb_format)
           IN  /\ r.id # <<>>
               /\ trace' = trace \o MakeHandleCalls(h) \o RegisterCalls(r, pb_format)
                             \o <<OsCall("SetClipboardData", r.id[1], h, FALSE)>>
               /\ log' = log \o r.log \o <<"failed to set clipboard">>
               /\ registry' = Registered(ident, r, pb_format)
               /\ handle' = h /\ format_id' = r.id[1]
  /\ leaked' = leaked + 1
  /\ i' = i + 1
  /\ pc' = LoopFrom(i)
  /\ UNCHANGED <<op, v, ret, clipOpen, clip, heap, before, prev, puts, reads,
                 aboutVars>>

\* -------------------------------------------------------------- read_text
\* The closure of read_text.  A null handle gives None.  Otherwise the
\* handle is locked, the units before the first zero are decoded, and only
\* the Ok branch unlocks the handle before it returns Some(result); the Err
\* branch falls through to None.
ReadTextClosure ==
  /\ pc = "get"
  /\ LET h == GetClipboardData(CF_UNICODETEXT)
         got == <<OsCall("GetClipboardData", CF_UNICODETEXT, h, h # 0)>>
         utf16_slice == ScanToNul(heap[h].mem)
         result == from_utf16(utf16_slice)
     IN  /\ handle' = h
         /\ IF h = 0
            THEN /\ v' = <<>>
                 /\ trace' = trace \o got
                 /\ heap' = heap
            ELSE IF result # <<>>
            THEN /\ v' = result
                 /\ trace' = trace \o got \o <<OsCall("GlobalLock", 0, h, TRUE),
                                              OsCall("GlobalUnlock", 0, h, TRUE)>>
                 /\ heap' = heap
            ELSE /\ v' = <<>>
                 /\ trace' = trace \o got \o <<OsCall("GlobalLock", 0, h, TRUE)>>
                 /\ heap' = [heap EXCEPT ![h].locks = @ + 1]
  /\ pc' = "close"
  /\ UNCHANGED <<op, i, format_id, ret, clipOpen, clip, leaked, registry, log,
                 before, prev, puts, reads, aboutVars>>

\* `.flatten()` of read_text: Option<Option<String>> to Option<String>.
flatten(o) == IF o = <<>> THEN <<>> ELSE o[1]

\* ------------------------------------------------------------ About window
\* A callback that returns to the event loop.
on_should_quit_Returns == [exits |-> FALSE, status |-> 0]

\* on_should_quit never returns: std::process::exit(0).
on_should_quit == [exits |-> TRUE, status |-> 0]
\* on_window_close and on_ok_button_clicked call on_should_quit.
on_window_close == on_should_quit
on_ok_button_clicked == on_should_quit

Events == {"should_quit", "window_close", "ok_clicked"}
Callback(e) ==
  IF e = "should_quit" THEN on_should_quit
  ELSE IF e = "window_close" THEN on_window_close
  ELSE on_ok_button_clicked

\* Entry of about_main in a process that made no clipboard call: uiInit
\* returned no error.
UiInitOk ==
  /\ apc = "start" /\ pc = "idle" /\ puts = 0 /\ reads = 0
  /\ apc' = "initialised"
  /\ UNCHANGED <<window, handlers, event, exitStatus, clipVars>>

\* uiInit returned an error: it is printed and about_main panics.
UiInitFails ==
  /\ apc = "start" /\ pc = "idle" /\ puts = 0 /\ reads = 0
  /\ apc' = "panicked"
  /\ UNCHANGED <<window, handlers, event, exitStatus, clipVars>>

\* The rest of about_main up to the event loop: uiOnShouldQuit,
\* uiNewWindow(500 x 300) with uiWindowOnClosing, the text area, the Ok
\* button with uiButtonOnClicked, uiControlShow, uiMain.
ShowWindow ==
  /\ apc = "initialised"
  /\ handlers' = {"should_quit", "window_close", "ok_clicked"}
  /\ window' = "shown"
  /\ apc' = "uiMain"
  /\ UNCHANGED <<event, exitStatus, clipVars>>

\* uiMain dispatches an event to its callback.  A callback that exits ends
\* the process; after one that returns the event loop keeps running.
Dispatch(e) ==
  /\ apc = "uiMain" /\ e \in handlers
  /\ event' = e
  /\ LET r == Callback(e)
     IN  IF r.exits
         THEN apc' = "exited" /\ exitStatus' = r.status /\ window' = "none"
         ELSE apc' = "uiMain" /\ exitStatus' = exitStatus /\ window' = window
  /\ UNCHANGED <<handlers, clipVars>>

OkClicked == Dispatch("ok_clicked")
WindowClosed == Dispatch("window_close")
ShouldQuit == Dispatch("should_quit")

\* ---------------------------------------------------------- specification
Next ==
  \/ read_text
  \/ put_formats
  \/ write_text
  \/ ForeignWrite
  \/ OpenClipboardOk
  \/ OpenClipboardFails
  \/ CloseClipboardStep
  \/ EmptyClipboardStep
  \/ IterationUnresolved
  \/ IterationSetOk
  \/ IterationSetFails
  \/ ReadTextClosure
  \/ UiInitOk
  \/ UiInitFails
  \/ ShowWindow
  \/ OkClicked
  \/ WindowClosed
  \/ ShouldQuit

Spec == Init /\ [][Next]_vars

TypeOK ==
  /\ pc \in {"idle", "open", "empty", "loop", "get", "close"}
  /\ clipOpen \in BOOLEAN
  /\ \A h \in DOMAIN heap : heap[h].locks \in Nat
  /\ leaked \in Nat
  /\ Range(clip) \subseteq DOMAIN heap
  /\ \A id \in DOMAIN clip : heap[clip[id]].owner = "os"
  \* every wide buffer under CF_UNICODETEXT is zero-terminated
  /\ CF_UNICODETEXT \in DOMAIN clip =>
       LET m == heap[clip[CF_UNICODETEXT]] IN m.width = 2 /\ 0 \in Range(m.mem)

\* ------------------------------------------------------------- properties
\* The last clipboard call has returned to its caller.
Returned(names) == pc = "idle" /\ op.name \in names
PutNames == {"put_formats", "write_text"}
AllNames == PutNames \cup {"read_text"}

\* OpenClipboard succeeded in the call the trace belongs to.
Opened == trace # <<>> /\ trace[1].call = "OpenClipboard" /\ trace[1].ok

Positions(call) == {k \in 1..Len(trace) : trace[k].call = call}
CountCalls(call) == Cardinality(Positions(call))
ClipboardBodyCalls == {"EmptyClipboard", "GetClipboardData", "SetClipboardData"}

\* C1: every call through with_clipboard brackets its body between one
\* successful OpenClipboard and one CloseClipboard: the body's clipboard
\* calls happen only while the clipboard is open, the body runs once, the
\* clipboard is closed when the call returns; after a failed OpenClipboard
\* nothing else is called and the clipboard contents are unchanged.
C1_OpenCloseBracket ==
  /\ pc \in {"idle", "open"} => ~clipOpen
  /\ pc \notin {"idle", "open"} =>
       /\ clipOpen /\ Opened
       /\ CountCalls("OpenClipboard") = 1 /\ CountCalls("CloseClipboard") = 0
  /\ Returned(AllNames) =>
       /\ CountCalls("OpenClipboard") = 1 /\ Positions("OpenClipboard") = {1}
       /\ IF trace[1].ok
          THEN /\ Positions("CloseClipboard") = {Len(trace)}
               /\ ret # <<>>
               /\ op.name = "read_text" =>
                    CountCalls("GetClipboardData") = 1 /\ CountCalls("EmptyClipboard") = 0
               /\ op.name \in PutNames =>
                    CountCalls("EmptyClipboard") = 1 /\ CountCalls("GetClipboardData") = 0
          ELSE /\ Len(trace) = 1
               /\ ret = <<>>
               /\ Contents = before

\* C1 witness: a read_text whose body ended on the None branch after the
\* handle was locked has returned with the clipboard closed.
C1_Witness ==
  /\ Returned({"read_text"}) /\ Opened
  /\ handle # 0 /\ ret = << <<>> >>
  /\ trace[Len(trace)].call = "CloseClipboard"

\* Position in the trace of the GlobalAlloc made for format k, and the calls
\* made for format k (up to the next GlobalAlloc or the end of the trace).
AllocPos(k) ==
  CHOOSE p \in Positions("GlobalAlloc") :
    Cardinality({q \in Positions("GlobalAlloc") : q < p}) = k - 1
SegmentOf(k) ==
  LET last == IF k < CountCalls("GlobalAlloc") THEN AllocPos(k + 1) - 1 ELSE Len(trace)
  IN  AllocPos(k)..last
SetsOf(k) == SegmentOf(k) \cap Positions("SetClipboardData")
Unresolved(k) ==
  \/ 0 \in Range(op.formats[k].identifier)
  \/ \E p \in SegmentOf(k) : trace[p].call = "RegisterClipboardFormatA" /\ ~trace[p].ok

\* What put_formats is expected to store for a format.
ExpectedMem(format) ==
  IF format.identifier = TEXT
  THEN encode_wide(from_utf8_unchecked(format.data)) \o <<0>>
  ELSE format.data

\* Handles this call passed to a successful SetClipboardData.
HandlesSet == {trace[k].h : k \in {p \in Positions("SetClipboardData") : trace[p].ok}}

\* The successful SetClipboardData at position p is the last one for its id.
LastSetOf(p) ==
  /\ trace[p].ok
  /\ \A q \in Positions("SetClipboardData") :
       q > p /\ trace[q].fmt = trace[p].fmt => ~trace[q].ok

\* C2: with the clipboard open, put_formats calls EmptyClipboard once, right
\* after OpenClipboard and before every SetClipboardData; format k is the
\* k-th one to get a handle, that handle is the one set for it, and it holds
\* format k's payload; when the call returns every clipboard entry was set
\* by this call, and write_text leaves at most one entry, under
\* CF_UNICODETEXT.
C2_EmptyThenSetInOrder ==
  /\ pc \in {"loop", "close"} /\ op.name \in PutNames =>
       /\ Positions("EmptyClipboard") = {2}
       /\ \A k \in Positions("SetClipboardData") : k > 2
       /\ CountCalls("GlobalAlloc") = i - 1
  /\ (pc \in {"loop", "close"} /\ op.name \in PutNames) \/ (Returned(PutNames) /\ Opened) =>
       \A k \in 1..CountCalls("GlobalAlloc") :
         \A p \in SetsOf(k) :
           /\ trace[p].h = trace[AllocPos(k)].h
           /\ LastSetOf(p) =>
                /\ trace[p].fmt \in DOMAIN clip
                /\ clip[trace[p].fmt] = trace[p].h
                /\ Contents[trace[p].fmt] = ExpectedMem(op.formats[k])
  /\ Returned(PutNames) /\ Opened =>
       /\ Positions("EmptyClipboard") = {2}
       /\ \A k \in Positions("SetClipboardData") : k > 2
       /\ CountCalls("GlobalAlloc") = Len(op.formats)
       /\ Range(clip) \subseteq HandlesSet
       /\ \A id \in DOMAIN clip :
            \E p \in Positions("SetClipboardData") : LastSetOf(p) /\ trace[p].fmt = id
       /\ op.name = "write_text" =>
            /\ DOMAIN clip \subseteq {CF_UNICODETEXT}
            /\ Cardinality(DOMAIN clip) <= 1

\* C2 witness: a put_formats of two formats has returned, over a clipboard
\* that held text before, and holds an entry that is not text.
C2_Witness ==
  /\ Returned({"put_formats"}) /\ Opened
  /\ CF_UNICODETEXT \in DOMAIN before
  /\ Len(op.formats) = 2
  /\ DOMAIN clip # {} /\ CF_UNICODETEXT \notin DOMAIN clip

\* C3: in each iteration of put_formats, a table name is given its table id
\* without asking the OS; otherwise TEXT is given CF_UNICODETEXT without
\* asking the OS; otherwise a name with a NUL byte gets no id and the OS is
\* not asked, and any other name is registered once and gets the id the OS
\* returns, or no id when the OS returns 0.  The id is the one passed to
\* SetClipboardData; without an id SetClipboardData is not called.
C3_FormatIdCases ==
  [][pc = "loop" /\ i' = i + 1 =>
       LET ident == op.formats[i].identifier
           new == SubSeq(trace', Len(trace) + 1, Len(trace'))
           regs == {k \in 1..Len(new) : new[k].call = "RegisterClipboardFormatA"}
           sets == {k \in 1..Len(new) : new[k].call = "SetClipboardData"}
           GivenId(id) ==
             /\ Cardinality(sets) = 1
             /\ \A k \in sets : new[k].fmt = id
             /\ format_id' = id
       IN  IF \E j \in 1..Len(STANDARD_FORMATS) : STANDARD_FORMATS[j][2] = ident
           THEN /\ regs = {} /\ registry' = registry
                /\ \A j \in 1..Len(STANDARD_FORMATS) :
                     STANDARD_FORMATS[j][2] = ident => GivenId(STANDARD_FORMATS[j][1])
           ELSE IF ident = TEXT
           THEN regs = {} /\ registry' = registry /\ GivenId(13)
           ELSE IF \E k \in 1..Len(ident) : ident[k] = 0
           THEN regs = {} /\ registry' = registry /\ sets = {}
           ELSE /\ Cardinality(regs) = 1
                /\ \A r \in regs :
                     IF new[r].fmt = 0
                     THEN sets = {} /\ ~new[r].ok
                     ELSE GivenId(new[r].fmt) /\ \A k \in sets : k > r]_vars

\* C3 witness: a private name was registered and the id the OS returned was
\* passed to SetClipboardData.
C3_Witness ==
  /\ pc \in {"loop", "close"} /\ i > 1
  /\ op.formats[i - 1].identifier = CustomName
  /\ registry = <<CustomName>>
  /\ format_id >= FirstRegisteredId
  /\ trace[Len(trace)].call = "SetClipboardData" /\ trace[Len(trace)].fmt = format_id

\* The units of a zero-terminated wide buffer that precede its first zero.
UnitsBeforeNul(w) ==
  LET z == CHOOSE k \in 1..Len(w) : w[k] = 0 /\ \A m \in 1..(k - 1) : w[m] # 0
  IN  SubSeq(w, 1, z - 1)

\* Well-formed UTF-16: every high surrogate is followed by a low one and
\* every low surrogate is preceded by a high one.
WellFormedUtf16(u) ==
  \A k \in 1..Len(u) :
    /\ IsHighSurrogate(u[k]) => k < Len(u) /\ IsLowSurrogate(u[k + 1])
    /\ IsLowSurrogate(u[k]) => k > 1 /\ IsHighSurrogate(u[k - 1])

\* C4: read_text returns a string exactly when the clipboard opened, it
\* held a CF_UNICODETEXT handle and the units before the first zero unit are
\* well-formed UTF-16; the string is the one whose UTF-16 encoding is those
\* units; otherwise it returns nothing; the clipboard contents are the same
\* as before the call.
C4_ReadTextResult ==
  Returned({"read_text"}) =>
    LET result == flatten(ret)
        hasText == CF_UNICODETEXT \in DOMAIN before
        units == UnitsBeforeNul(before[CF_UNICODETEXT])
    IN  /\ Contents = before
        /\ IF Opened /\ hasText /\ WellFormedUtf16(units)
           THEN result # <<>> /\ encode_wide(result[1]) = units
           ELSE result = <<>>

\* C4 witness: read_text has returned "A" from a buffer that holds more
\* units after the first zero.
C4_Witness ==
  /\ Returned({"read_text"})
  /\ CF_UNICODETEXT \in DOMAIN before /\ before[CF_UNICODETEXT] = <<65, 0, 65, 0>>
  /\ flatten(ret) = << <<65>> >>

\* Number of lines of one kind printed by the call.
CountLines(line) == Cardinality({k \in 1..Len(log) : log[k] = line})
FailedCalls(call) == {k \in Positions(call) : ~trace[k].ok}

\* C5 as claimed: when a clipboard call has returned, a failed OpenClipboard,
\* each failed registration and each failed SetClipboardData has a printed
\* line.
C5_EveryFailureLogged ==
  Returned(AllNames) =>
    /\ ~trace[1].ok => log # <<>>
    /\ Cardinality(FailedCalls("RegisterClipboardFormatA")) = CountLines("register failed")
    /\ Cardinality(FailedCalls("SetClipboardData")) = CountLines("failed to set clipboard")

\* The scalar values of a string that precede its first U+0000.
BeforeFirstNul(s) ==
  IF \E k \in 1..Len(s) : s[k] = 0
  THEN LET z == CHOOSE k \in 1..Len(s) : s[k] = 0 /\ \A m \in 1..(k - 1) : s[m] # 0
       IN  SubSeq(s, 1, z - 1)
  ELSE s

\* A read_text that returned with every OS call successful, directly after a
\* write_text(s) whose OS calls all succeeded.
ReadAfterWrite ==
  /\ Returned({"read_text"}) /\ AllOk(trace)
  /\ prev.kind = "write_ok"

\* C6 as claimed: read_text directly after a successful write_text(s)
\* returns exactly s, for every string s.
C6_RoundTripAnyString == ReadAfterWrite => flatten(ret) = <<prev.s>>

\* C6 amended: read_text directly after a successful write_text(s) returns
\* the part of s before its first U+0000, which is s itself when s holds no
\* U+0000.
C6_RoundTripUpToNul ==
  ReadAfterWrite =>
    /\ flatten(ret) = <<BeforeFirstNul(prev.s)>>
    /\ 0 \notin Range(prev.s) => flatten(ret) = <<prev.s>>

\* C6 witness: a string with a character outside the basic plane and no
\* U+0000 was written and read back.
C6_Witness ==
  /\ ReadAfterWrite
  /\ 128512 \in Range(prev.s) /\ 0 \notin Range(prev.s)
  /\ flatten(ret) = <<prev.s>>

\* C7: the About process shows its window only inside the event loop; any
\* dispatched event (Ok clicked, window closed, should-quit) leaves the
\* process exited with status 0 and no window, never back in about_main;
\* a failed toolkit initialisation panics with no window and no callback.
C7_AboutExitsOnEvent ==
  /\ window = "shown" <=> apc = "uiMain"
  /\ event # "none" => apc = "exited" /\ exitStatus = 0 /\ window = "none"
  /\ apc = "exited" => event \in Events /\ exitStatus = 0
  /\ apc = "panicked" => window = "none" /\ handlers = {} /\ event = "none"
  /\ apc # "exited" => exitStatus = -1

\* C7 witness: the window was shown and the Ok button ended the process.
C7_Witness ==
  apc = "exited" /\ event = "ok_clicked" /\ handlers = Events /\ window = "none"

\* C8: when put_formats returns with the clipboard opened, every format of
\* the list was processed; a format whose identifier did not resolve got no
\* SetClipboardData call, every other format got exactly one, failed or
\* not; the ids on the clipboard are exactly those of the successful
\* SetClipboardData calls.  While the loop runs, every id set so far is
\* still on the clipboard.
C8_FailuresDoNotStopTheLoop ==
  /\ Returned(PutNames) /\ Opened =>
       /\ CountCalls("GlobalAlloc") = Len(op.formats)
       /\ \A k \in 1..Len(op.formats) :
            Cardinality(SetsOf(k)) = IF Unresolved(k) THEN 0 ELSE 1
       /\ DOMAIN clip =
            {trace[p].fmt : p \in {q \in Positions("SetClipboardData") : trace[q].ok}}
  /\ pc = "loop" =>
       DOMAIN clip =
         {trace[p].fmt : p \in {q \in Positions("SetClipboardData") : trace[q].ok}}

\* C8 witness: of two formats the first failed in SetClipboardData and the
\* second is on the clipboard.
C8_Witness ==
  /\ Returned({"put_formats"}) /\ Opened /\ Len(op.formats) = 2
  /\ \E p \in SetsOf(1) : ~trace[p].ok
  /\ \E p \in SetsOf(2) : trace[p].ok /\ trace[p].fmt \in DOMAIN clip

\* C9 as claimed: when read_text returns, the handle it locked has been
\* unlocked as often as it was locked.
C9_LockBalance ==
  Returned({"read_text"}) /\ handle # 0 =>
    /\ Cardinality({k \in Positions("GlobalLock") : trace[k].h = handle})
         = Cardinality({k \in Positions("GlobalUnlock") : trace[k].h = handle})
    /\ heap[handle].locks = 0

\* C10 as claimed: when put_formats returns, every handle it allocated was
\* passed to SetClipboardData.
C10_EveryHandleHandedOver ==
  Returned(PutNames) =>
    \A p \in Positions("GlobalAlloc") :
      \E q \in Positions("SetClipboardData") : q > p /\ trace[q].h = trace[p].h

====
